---- MODULE Spec2Model ----
(***************************************************************************)
(* The domino game engine of awsprojkiro/dominoes_game.py as a state       *)
(* machine: the state is a DominoesGame instance, Init is the state after  *)
(* DominoesGame() returned, and every public operation of the engine       *)
(* (play_player_tile, ai_play, player_draw_until_playable) is one action.  *)
(* A Tile is the pair <<left, right>>; a Python list is a sequence.        *)
(* `requests` holds the HTTP requests of app/main.py that are being served *)
(* for this game, one per server thread, each with its position in the     *)
(* handler and its local variables; `session` is the score kept in the     *)
(* session of the browser that plays the game.                             *)
(***************************************************************************)
EXTENDS Integers, Sequences, FiniteSets, TLC

VARIABLES tiles, player_hand, ai_hand, board, boneyard,
          current_player, game_over, winner, last, requests, session

vars == <<tiles, player_hand, ai_hand, board, boneyard,
          current_player, game_over, winner, last, requests, session>>

\* The engine's own fields, without the return value of the last call.
engine == <<player_hand, ai_hand, board, boneyard,
            current_player, game_over, winner>>

-----------------------------------------------------------------------------
(* Program constants *)

\* range(7): pip values are 0..MaxPip
MaxPip == 6

\* tiles[:7], tiles[7:14]: tiles dealt to each hand
HandSize == 7

\* Python's None (winner, board ends, missing result fields)
None == "None"

\* a Tile-valued name bound to None (no double in the hand, no tile played)
NoTile == <<>>

Pips == 0..MaxPip

-----------------------------------------------------------------------------
(* class Tile *)

\* Mutant of TileEq: only the same orientation is equal.
TileEqAsHeld(t, u) == t[1] = u[1] /\ t[2] = u[2]

\* Tile.__eq__, lines 15-16, for two Tiles: equal in either orientation
TileEq(t, u) ==
    \/ (t[1] = u[1] /\ t[2] = u[2])
    \/ (t[1] = u[2] /\ t[2] = u[1])

\* a Python value that __eq__ can be handed, with its class: a Tile, or the
\* dict, the tuple or the None that carry the same pips
PyValue(class, a, b) == [class |-> class, left |-> a, right |-> b]

NonTileClasses == {"dict", "tuple", "NoneType"}

\* Tile.__eq__(self, other), lines 12-16, for any other
Tile__eq__(self, other) ==
    IF other.class # "Tile" THEN FALSE
    ELSE TileEq(self, <<other.left, other.right>>)

\* Tile.is_double
is_double(t) == t[1] = t[2]

\* Tile.has_value
has_value(t, value) == t[1] = value \/ t[2] = value

-----------------------------------------------------------------------------
(* Python list helpers, as the engine uses them on lists of Tile *)

\* `tile in hand`: membership by Tile.__eq__
InList(tile, hand) == \E i \in 1..Len(hand) : TileEq(hand[i], tile)

\* index of the first element equal (Tile.__eq__) to tile
FirstIndex(tile, hand) ==
    CHOOSE i \in 1..Len(hand) :
        /\ TileEq(hand[i], tile)
        /\ \A j \in 1..(i - 1) : ~TileEq(hand[j], tile)

\* Mutant of ListRemove: the tile is never taken out of the list.
ListRemoveNothing(hand, tile) == hand

\* hand.remove(tile): drops the first element equal to tile
ListRemove(hand, tile) ==
    LET i == FirstIndex(tile, hand)
    IN  SubSeq(hand, 1, i - 1) \o SubSeq(hand, i + 1, Len(hand))

\* Mutant of FirstMax: the first element is taken, whatever its key.
FirstOfAll(keys) == 1

\* max(lst, key=...) on the keys of a non-empty list: the index of the first
\* element whose key is the greatest
FirstMax(keys) ==
    CHOOSE i \in 1..Len(keys) :
        /\ \A j \in 1..Len(keys) : keys[j] <= keys[i]
        /\ \A j \in 1..(i - 1) : keys[j] < keys[i]

-----------------------------------------------------------------------------
(* Construction: the tile set, the deal, the starting player *)

\* DominoesGame._create_domino_set: (i, j) for i in range(7), j in range(i, 7)
RECURSIVE DominoRow(_, _)
DominoRow(i, j) ==
    IF j > MaxPip THEN <<>> ELSE <<(<<i, j>>)>> \o DominoRow(i, j + 1)

RECURSIVE DominoRows(_)
DominoRows(i) ==
    IF i > MaxPip THEN <<>> ELSE DominoRow(i, i) \o DominoRows(i + 1)

create_domino_set == DominoRows(0)

\* DominoesGame._tile_value
tile_value(t) == t[1] + t[2]

\* DominoesGame._get_highest_tile
get_highest_tile(hand) ==
    hand[FirstMax([i \in 1..Len(hand) |-> tile_value(hand[i])])]

\* [t for t in hand if t.is_double()]
RECURSIVE Doubles(_)
Doubles(hand) ==
    IF hand = <<>> THEN <<>>
    ELSE (IF is_double(Head(hand)) THEN <<Head(hand)>> ELSE <<>>)
         \o Doubles(Tail(hand))

\* max(doubles, key=lambda t: t.left) if doubles else None
highest_double(hand) ==
    LET doubles == Doubles(hand)
    IN  IF doubles = <<>> THEN NoTile
        ELSE doubles[FirstMax([i \in 1..Len(doubles) |-> doubles[i][1]])]

\* Mutant of ai_play_opening: the turn is not handed to the player.
ai_play_opening_keeps_turn(tile, ph, ah) ==
    [player_hand |-> ph, ai_hand |-> ListRemove(ah, tile),
     board |-> <<tile>>, current_player |-> "ai"]

\* DominoesGame._ai_play_opening_double / _ai_play_opening_tile:
\* board.append(tile); ai_hand.remove(tile); current_player = 'player'
ai_play_opening(tile, ph, ah) ==
    [player_hand |-> ph, ai_hand |-> ListRemove(ah, tile),
     board |-> <<tile>>, current_player |-> "player"]

\* the branches of _determine_starting_player that leave the opening to the
\* player: current_player = 'player', nothing played
player_opens(ph, ah) ==
    [player_hand |-> ph, ai_hand |-> ah,
     board |-> <<>>, current_player |-> "player"]

\* line 75: ai_highest_double.left > player_highest_double.left
ai_double_wins(ai_highest_double, player_highest_double) ==
    ai_highest_double[1] > player_highest_double[1]

\* Mutant of ai_tile_wins: an equal highest sum is enough for the AI (>=).
ai_tile_wins_on_tie(ai_highest, player_highest) ==
    tile_value(ai_highest) >= tile_value(player_highest)

\* line 90: self._tile_value(ai_highest) > self._tile_value(player_highest)
ai_tile_wins(ai_highest, player_highest) ==
    tile_value(ai_highest) > tile_value(player_highest)

\* DominoesGame._determine_starting_player (a Tile object is always truthy,
\* so `if ai_highest_double` tests only for None)
determine_starting_player(ph, ah) ==
    LET player_highest_double == highest_double(ph)
        ai_highest_double == highest_double(ah)
    IN  IF ai_highest_double # NoTile /\ player_highest_double # NoTile
        THEN IF ai_double_wins(ai_highest_double, player_highest_double)
             THEN ai_play_opening(ai_highest_double, ph, ah)
             ELSE player_opens(ph, ah)
        ELSE IF ai_highest_double # NoTile /\ player_highest_double = NoTile
        THEN ai_play_opening(ai_highest_double, ph, ah)
        ELSE IF player_highest_double # NoTile /\ ai_highest_double = NoTile
        THEN player_opens(ph, ah)
        ELSE LET player_highest == get_highest_tile(ph)
                 ai_highest == get_highest_tile(ah)
             IN  IF ai_tile_wins(ai_highest, player_highest)
                 THEN ai_play_opening(ai_highest, ph, ah)
                 ELSE player_opens(ph, ah)

\* Mutant of deal_tiles: the AI's slice starts one tile early (tiles[6:13]).
deal_tiles_overlap(deck) ==
    LET start == determine_starting_player(
                     SubSeq(deck, 1, HandSize),
                     SubSeq(deck, HandSize, 2 * HandSize - 1))
    IN  [player_hand |-> start.player_hand, ai_hand |-> start.ai_hand,
         board |-> start.board, current_player |-> start.current_player,
         boneyard |-> SubSeq(deck, 2 * HandSize + 1, Len(deck))]

\* DominoesGame._deal_tiles on the shuffled list: tiles[:7], tiles[7:14],
\* tiles[14:], then _determine_starting_player
deal_tiles(deck) ==
    LET start == determine_starting_player(
                     SubSeq(deck, 1, HandSize),
                     SubSeq(deck, HandSize + 1, 2 * HandSize))
    IN  [player_hand |-> start.player_hand, ai_hand |-> start.ai_hand,
         board |-> start.board, current_player |-> start.current_player,
         boneyard |-> SubSeq(deck, 2 * HandSize + 1, Len(deck))]

\* random.shuffle(self.tiles) yields some permutation of the tile set
IsShuffleOf(deck, set) ==
    /\ Len(deck) = Len(set)
    /\ \A i \in 1..Len(set) : \E j \in 1..Len(deck) : deck[j] = set[i]

\* The outcomes of random.shuffle the model draws from: NumDecks of the
\* permutations listed in Decks.
NumDecks == 7

Decks == <<
    \* 1: both hands hold doubles, the AI's is higher
    << <<1,5>>, <<4,4>>, <<0,0>>, <<2,4>>, <<3,4>>, <<1,2>>, <<3,5>>,
       <<2,5>>, <<3,3>>, <<0,1>>, <<5,6>>, <<0,2>>, <<4,5>>, <<5,5>>,
       <<4,6>>, <<3,6>>, <<2,6>>, <<2,3>>, <<0,4>>, <<1,1>>, <<6,6>>,
       <<1,6>>, <<2,2>>, <<0,5>>, <<1,3>>, <<1,4>>, <<0,6>>, <<0,3>> >>,
    \* 2: both hands hold doubles, the player's is higher
    << <<2,3>>, <<2,2>>, <<3,6>>, <<6,6>>, <<1,1>>, <<1,4>>, <<4,6>>,
       <<1,2>>, <<1,5>>, <<3,3>>, <<0,6>>, <<0,4>>, <<2,4>>, <<1,3>>,
       <<3,4>>, <<0,0>>, <<2,5>>, <<0,3>>, <<4,4>>, <<5,6>>, <<0,5>>,
       <<3,5>>, <<2,6>>, <<1,6>>, <<5,5>>, <<0,2>>, <<4,5>>, <<0,1>> >>,
    \* 3: only the AI holds a double
    << <<3,4>>, <<2,4>>, <<3,5>>, <<0,1>>, <<2,5>>, <<4,5>>, <<5,6>>,
       <<4,4>>, <<1,5>>, <<2,2>>, <<0,2>>, <<1,1>>, <<0,3>>, <<6,6>>,
       <<4,6>>, <<1,2>>, <<2,6>>, <<2,3>>, <<1,6>>, <<1,3>>, <<5,5>>,
       <<0,6>>, <<0,4>>, <<3,6>>, <<0,5>>, <<1,4>>, <<0,0>>, <<3,3>> >>,
    \* 4: only the player holds a double
    << <<5,6>>, <<6,6>>, <<0,0>>, <<2,4>>, <<3,3>>, <<5,5>>, <<1,1>>,
       <<2,6>>, <<3,4>>, <<0,2>>, <<1,3>>, <<2,5>>, <<0,3>>, <<0,5>>,
       <<1,4>>, <<0,4>>, <<3,6>>, <<2,2>>, <<0,1>>, <<1,2>>, <<4,5>>,
       <<4,6>>, <<1,6>>, <<2,3>>, <<4,4>>, <<3,5>>, <<1,5>>, <<0,6>> >>,
    \* 5: no doubles dealt, the AI's highest sum (9, held twice) beats the player's (7)
    << <<2,3>>, <<0,2>>, <<0,5>>, <<2,4>>, <<0,4>>, <<0,1>>, <<2,5>>,
       <<0,6>>, <<2,6>>, <<3,6>>, <<3,5>>, <<0,3>>, <<1,2>>, <<4,5>>,
       <<3,3>>, <<1,1>>, <<5,6>>, <<1,4>>, <<1,3>>, <<1,6>>, <<0,0>>,
       <<5,5>>, <<1,5>>, <<4,6>>, <<2,2>>, <<4,4>>, <<3,4>>, <<6,6>> >>,
    \* 6: no doubles dealt, equal highest sums (9 and 9)
    << <<2,3>>, <<0,3>>, <<3,6>>, <<1,5>>, <<2,6>>, <<0,2>>, <<1,2>>,
       <<2,4>>, <<2,5>>, <<3,4>>, <<0,1>>, <<4,5>>, <<0,5>>, <<0,6>>,
       <<4,6>>, <<6,6>>, <<0,0>>, <<3,3>>, <<4,4>>, <<2,2>>, <<1,3>>,
       <<1,1>>, <<1,4>>, <<3,5>>, <<1,6>>, <<5,6>>, <<0,4>>, <<5,5>> >>,
    \* 7: no doubles dealt, the player's highest sum (11) beats the AI's (7)
    << <<4,5>>, <<4,6>>, <<5,6>>, <<3,6>>, <<3,5>>, <<0,1>>, <<0,5>>,
       <<1,6>>, <<1,3>>, <<0,2>>, <<2,3>>, <<2,5>>, <<1,5>>, <<2,4>>,
       <<0,4>>, <<4,4>>, <<6,6>>, <<2,6>>, <<0,6>>, <<0,0>>, <<0,3>>,
       <<3,4>>, <<5,5>>, <<3,3>>, <<1,4>>, <<1,2>>, <<2,2>>, <<1,1>> >>,
    \* 8: both hands hold doubles, the AI's is higher (second deal)
    << <<1,1>>, <<0,2>>, <<2,6>>, <<4,5>>, <<0,1>>, <<0,3>>, <<5,5>>,
       <<1,5>>, <<6,6>>, <<0,0>>, <<2,5>>, <<2,4>>, <<4,4>>, <<2,3>>,
       <<5,6>>, <<0,4>>, <<4,6>>, <<0,5>>, <<3,3>>, <<2,2>>, <<3,5>>,
       <<1,6>>, <<1,3>>, <<1,2>>, <<0,6>>, <<3,4>>, <<3,6>>, <<1,4>> >>
>>

-----------------------------------------------------------------------------
(* The board *)

\* DominoesGame.get_board_ends
get_board_ends(b) ==
    IF b = <<>> THEN <<None, None>> ELSE <<b[1][1], b[Len(b)][2]>>

\* Mutant of can_play_tile: a tile that fits one end is reported legal on both.
can_play_tile_either_end(b, tile) ==
    IF b = <<>> THEN [left |-> TRUE, right |-> TRUE]
    ELSE LET ends == get_board_ends(b)
             fits == has_value(tile, ends[1]) \/ has_value(tile, ends[2])
         IN  [left |-> fits, right |-> fits]

\* DominoesGame.can_play_tile
can_play_tile(b, tile) ==
    IF b = <<>> THEN [left |-> TRUE, right |-> TRUE]
    ELSE LET ends == get_board_ends(b)
         IN  [left |-> has_value(tile, ends[1]),
              right |-> has_value(tile, ends[2])]

\* any(can_play_tile(t)['left'] or can_play_tile(t)['right'] for t in hand)
can_play_any(b, hand) ==
    \E i \in 1..Len(hand) :
        can_play_tile(b, hand[i]).left \/ can_play_tile(b, hand[i]).right

\* Mutant of orient_left: the tile is laid as held, never turned.
orient_left_as_held(tile, left_end) == tile

\* play_tile, lines 148-151: the tile as laid at the left end
orient_left(tile, left_end) ==
    IF tile[2] = left_end THEN tile ELSE <<tile[2], tile[1]>>

\* Mutant of orient_right: the tile is laid as held, never turned.
orient_right_as_held(tile, right_end) == tile

\* play_tile, lines 157-160: the tile as laid at the right end
orient_right(tile, right_end) ==
    IF tile[1] = right_end THEN tile ELSE <<tile[2], tile[1]>>

\* Mutant of play_tile: the tile is taken from the hand before the side is
\* checked, so a refused placement has already changed the hand.
play_tile_remove_first(tile, position, hand, b) ==
    IF ~InList(tile, hand)
    THEN [ok |-> FALSE, board |-> b, hand |-> hand]
    ELSE IF b = <<>>
    THEN [ok |-> TRUE, board |-> Append(b, tile),
          hand |-> ListRemove(hand, tile)]
    ELSE LET left_end == get_board_ends(b)[1]
             right_end == get_board_ends(b)[2]
         IN  IF position = "left" /\ has_value(tile, left_end)
             THEN [ok |-> TRUE,
                   board |-> <<orient_left(tile, left_end)>> \o b,
                   hand |-> ListRemove(hand, tile)]
             ELSE IF position = "right" /\ has_value(tile, right_end)
             THEN [ok |-> TRUE,
                   board |-> Append(b, orient_right(tile, right_end)),
                   hand |-> ListRemove(hand, tile)]
             ELSE [ok |-> FALSE, board |-> b, hand |-> ListRemove(hand, tile)]

\* DominoesGame.play_tile(tile, position, hand): the return value, the board
\* and the hand after the call
play_tile(tile, position, hand, b) ==
    IF ~InList(tile, hand)
    THEN [ok |-> FALSE, board |-> b, hand |-> hand]
    ELSE IF b = <<>>
    THEN [ok |-> TRUE, board |-> Append(b, tile),
          hand |-> ListRemove(hand, tile)]
    ELSE LET left_end == get_board_ends(b)[1]
             right_end == get_board_ends(b)[2]
         IN  IF position = "left" /\ has_value(tile, left_end)
             THEN [ok |-> TRUE,
                   board |-> <<orient_left(tile, left_end)>> \o b,
                   hand |-> ListRemove(hand, tile)]
             ELSE IF position = "right" /\ has_value(tile, right_end)
             THEN [ok |-> TRUE,
                   board |-> Append(b, orient_right(tile, right_end)),
                   hand |-> ListRemove(hand, tile)]
             ELSE [ok |-> FALSE, board |-> b, hand |-> hand]

\* sum(self._tile_value(t) for t in hand)
RECURSIVE hand_total(_)
hand_total(hand) ==
    IF hand = <<>> THEN 0 ELSE tile_value(Head(hand)) + hand_total(Tail(hand))

\* Mutant of check_game_over: equal pip sums go to the player (<=).
check_game_over_tie_to_player(ph, ah, b, by, go, w) ==
    IF ph = <<>> THEN [game_over |-> TRUE, winner |-> "player"]
    ELSE IF ah = <<>> THEN [game_over |-> TRUE, winner |-> "ai"]
    ELSE IF by = <<>>
    THEN IF ~can_play_any(b, ph) /\ ~can_play_any(b, ah)
         THEN [game_over |-> TRUE,
               winner |-> IF hand_total(ph) <= hand_total(ah)
                          THEN "player" ELSE "ai"]
         ELSE [game_over |-> go, winner |-> w]
    ELSE [game_over |-> go, winner |-> w]

\* Mutant of check_game_over: a blocked game ends with no winner named.
check_game_over_names_no_winner(ph, ah, b, by, go, w) ==
    IF ph = <<>> THEN [game_over |-> TRUE, winner |-> "player"]
    ELSE IF ah = <<>> THEN [game_over |-> TRUE, winner |-> "ai"]
    ELSE IF by = <<>>
    THEN IF ~can_play_any(b, ph) /\ ~can_play_any(b, ah)
         THEN [game_over |-> TRUE, winner |-> w]
         ELSE [game_over |-> go, winner |-> w]
    ELSE [game_over |-> go, winner |-> w]

\* Mutant of check_game_over: the AI's empty hand is not looked at.
check_game_over_player_only(ph, ah, b, by, go, w) ==
    IF ph = <<>> THEN [game_over |-> TRUE, winner |-> "player"]
    ELSE IF by = <<>>
    THEN IF ~can_play_any(b, ph) /\ ~can_play_any(b, ah)
         THEN [game_over |-> TRUE,
               winner |-> IF hand_total(ph) < hand_total(ah)
                          THEN "player" ELSE "ai"]
         ELSE [game_over |-> go, winner |-> w]
    ELSE [game_over |-> go, winner |-> w]

\* DominoesGame._check_game_over: game_over and winner after the call, from
\* their values go, w before it
check_game_over(ph, ah, b, by, go, w) ==
    IF ph = <<>> THEN [game_over |-> TRUE, winner |-> "player"]
    ELSE IF ah = <<>> THEN [game_over |-> TRUE, winner |-> "ai"]
    ELSE IF by = <<>>
    THEN IF ~can_play_any(b, ph) /\ ~can_play_any(b, ah)
         THEN [game_over |-> TRUE,
               winner |-> IF hand_total(ph) < hand_total(ah)
                          THEN "player" ELSE "ai"]
         ELSE [game_over |-> go, winner |-> w]
    ELSE [game_over |-> go, winner |-> w]

-----------------------------------------------------------------------------
(* What a call returned: the result dict of the engine's public methods,   *)
(* with `success` standing for 'success' (player calls) and 'played'       *)
(* (ai_play), absent keys as None / NoTile, and `raised` naming an         *)
(* exception that left the call instead of a result.                       *)

Result(op, success, message) ==
    [op |-> op, success |-> success, message |-> message, drew_count |-> 0,
     can_play |-> FALSE, passed |-> FALSE, tile |-> NoTile,
     position |-> None, raised |-> None]

\* the call raised: no result dict
Raised(op, exc) ==
    [op |-> op, success |-> FALSE, message |-> None, drew_count |-> 0,
     can_play |-> FALSE, passed |-> FALSE, tile |-> NoTile,
     position |-> None, raised |-> exc]

-----------------------------------------------------------------------------
(* The public operations.  Each is an operator from the engine's fields g  *)
(* (a record) and the call's arguments to the fields after the call and    *)
(* the value returned; the actions below apply them to the state.          *)

Cur ==
    [player_hand |-> player_hand, ai_hand |-> ai_hand, board |-> board,
     boneyard |-> boneyard, current_player |-> current_player,
     game_over |-> game_over, winner |-> winner]

\* play_player_tile, lines 171-176: the first tile of the hand with
\* t.left == tile_dict['left'] and t.right == tile_dict['right'], else None
find_tile(hand, tile_dict) ==
    IF \E i \in 1..Len(hand) :
           hand[i][1] = tile_dict.left /\ hand[i][2] = tile_dict.right
    THEN hand[CHOOSE i \in 1..Len(hand) :
                  /\ hand[i][1] = tile_dict.left /\ hand[i][2] = tile_dict.right
                  /\ \A j \in 1..(i - 1) :
                         ~(hand[j][1] = tile_dict.left
                           /\ hand[j][2] = tile_dict.right)]
    ELSE NoTile

\* Mutant of play_refused: the turn test is missing.
play_refused_game_over_only(g) == g.game_over

\* line 168: if self.current_player != 'player' or self.game_over
play_refused(g) == g.current_player # "player" \/ g.game_over

\* Mutant of ai_refused: the game_over test is missing.
ai_refused_turn_only(g) == g.current_player # "ai"

\* line 194: if self.current_player != 'ai' or self.game_over
ai_refused(g) == g.current_player # "ai" \/ g.game_over

\* line 252: if self.current_player != 'player' or self.game_over
draw_refused(g) == g.current_player # "player" \/ g.game_over

\* DominoesGame.play_player_tile(tile_dict, position)
play_player_tile(g, tile_dict, position) ==
    IF play_refused(g)
    THEN [g |-> g,
          res |-> Result("play_player_tile", FALSE, "Not your turn or game over")]
    ELSE LET tile == find_tile(g.player_hand, tile_dict)
         IN  IF tile = NoTile
             THEN [g |-> g,
                   res |-> Result("play_player_tile", FALSE, "Tile not in your hand")]
             ELSE IF position \notin {"left", "right"}
             \* playable[position] on the dict {'left': .., 'right': ..}
             THEN [g |-> g, res |-> Raised("play_player_tile", "KeyError")]
             ELSE IF ~can_play_tile(g.board, tile)[position]
             THEN [g |-> g,
                   res |-> Result("play_player_tile", FALSE, "Cannot play tile on side")]
             ELSE LET pt == play_tile(tile, position, g.player_hand, g.board)
                  IN  IF pt.ok
                      THEN LET over == check_game_over(pt.hand, g.ai_hand,
                                           pt.board, g.boneyard,
                                           g.game_over, g.winner)
                           IN  [g |-> [g EXCEPT !.player_hand = pt.hand,
                                                !.board = pt.board,
                                                !.current_player = "ai",
                                                !.game_over = over.game_over,
                                                !.winner = over.winner],
                                res |-> Result("play_player_tile", TRUE,
                                               "Tile played successfully")]
                      ELSE [g |-> g,
                            res |-> Result("play_player_tile", FALSE,
                                           "Failed to play tile")]

\* ai_play, lines 202-208: the (tile, side) pairs playable from the hand, in
\* hand order, 'left' before 'right'
RECURSIVE playable_moves(_, _)
playable_moves(b, hand) ==
    IF hand = <<>> THEN <<>>
    ELSE LET tile == Head(hand)
             playable == can_play_tile(b, tile)
         IN  (IF playable.left THEN <<(<<tile, "left">>)>> ELSE <<>>)
             \o (IF playable.right THEN <<(<<tile, "right">>)>> ELSE <<>>)
             \o playable_moves(b, Tail(hand))

\* ai_play, lines 231-248: draw one tile and loop, or pass
RECURSIVE ai_loop(_, _, _, _)

\* Mutant of ai_draw_or_pass: the pass does not hand the turn to the player.
ai_draw_or_pass_keeps_turn(g, ah, by, drawn) ==
    IF by # <<>>
    THEN ai_loop(g, Append(ah, by[Len(by)]), SubSeq(by, 1, Len(by) - 1),
                 drawn + 1)
    ELSE [g |-> [g EXCEPT !.ai_hand = ah, !.boneyard = by],
          res |-> [Result("ai_play", FALSE,
                          IF drawn > 0 THEN "AI drew but still cannot play - passed"
                          ELSE "AI passed (no playable tiles)")
                   EXCEPT !.drew_count = drawn]]

ai_draw_or_pass(g, ah, by, drawn) ==
    IF by # <<>>
    THEN ai_loop(g, Append(ah, by[Len(by)]), SubSeq(by, 1, Len(by) - 1),
                 drawn + 1)
    ELSE [g |-> [g EXCEPT !.ai_hand = ah, !.boneyard = by,
                          !.current_player = "player"],
          res |-> [Result("ai_play", FALSE,
                          IF drawn > 0 THEN "AI drew but still cannot play - passed"
                          ELSE "AI passed (no playable tiles)")
                   EXCEPT !.drew_count = drawn]]

\* ai_play, lines 200-248: one iteration of `while True` with the hand ah,
\* the boneyard by and len(drawn_tiles) = drawn
ai_loop(g, ah, by, drawn) ==
    LET moves == playable_moves(g.board, ah)
    IN  IF moves # <<>>
        THEN LET \* max(playable_moves, key=lambda x: self._tile_value(x[0]))
                 best_move == moves[FirstMax([i \in 1..Len(moves) |->
                                                  tile_value(moves[i][1])])]
                 tile == best_move[1]
                 position == best_move[2]
                 pt == play_tile(tile, position, ah, g.board)
             IN  IF pt.ok
                 THEN LET over == check_game_over(g.player_hand, pt.hand,
                                      pt.board, by, g.game_over, g.winner)
                      IN  [g |-> [g EXCEPT !.ai_hand = pt.hand,
                                           !.board = pt.board,
                                           !.boneyard = by,
                                           !.current_player = "player",
                                           !.game_over = over.game_over,
                                           !.winner = over.winner],
                           res |-> [Result("ai_play", TRUE,
                                           IF drawn > 0 THEN "AI drew, then played"
                                           ELSE "AI played")
                                    EXCEPT !.tile = tile,
                                           !.position = position,
                                           !.drew_count = drawn]]
                 ELSE ai_draw_or_pass(g, ah, by, drawn)
        ELSE ai_draw_or_pass(g, ah, by, drawn)

\* Mutant of ai_play: a tile is drawn before the hand is looked at.
ai_play_draw_then_look(g) ==
    IF ai_refused(g)
    THEN [g |-> g, res |-> Result("ai_play", FALSE, "Not AI turn or game over")]
    ELSE IF g.boneyard = <<>>
    THEN ai_loop(g, g.ai_hand, g.boneyard, 0)
    ELSE ai_loop(g, Append(g.ai_hand, g.boneyard[Len(g.boneyard)]),
                 SubSeq(g.boneyard, 1, Len(g.boneyard) - 1), 1)

\* DominoesGame.ai_play()
ai_play(g) ==
    IF ai_refused(g)
    THEN [g |-> g, res |-> Result("ai_play", FALSE, "Not AI turn or game over")]
    ELSE ai_loop(g, g.ai_hand, g.boneyard, 0)

\* player_draw_until_playable, lines 261-301: one iteration of `while True`
RECURSIVE draw_loop(_, _, _, _)

\* Mutant of draw_loop: the pass is reported but the turn stays with the player.
draw_loop_keeps_turn(g, ph, by, drawn) ==
    IF can_play_any(g.board, ph)
    THEN [g |-> [g EXCEPT !.player_hand = ph, !.boneyard = by],
          res |-> [Result("player_draw_until_playable", TRUE,
                          IF drawn > 0 THEN "Drew - you can now play"
                          ELSE "You can now play a tile")
                   EXCEPT !.drew_count = drawn, !.can_play = TRUE]]
    ELSE IF by # <<>>
    THEN draw_loop(g, Append(ph, by[Len(by)]), SubSeq(by, 1, Len(by) - 1),
                   drawn + 1)
    ELSE [g |-> [g EXCEPT !.player_hand = ph, !.boneyard = by],
          res |-> [Result("player_draw_until_playable", TRUE,
                          IF drawn > 0
                          THEN "Drew but still cannot play - turn passed to AI"
                          ELSE "No playable tiles - turn passed to AI")
                   EXCEPT !.drew_count = drawn, !.passed = TRUE]]

draw_loop(g, ph, by, drawn) ==
    IF can_play_any(g.board, ph)
    THEN [g |-> [g EXCEPT !.player_hand = ph, !.boneyard = by],
          res |-> [Result("player_draw_until_playable", TRUE,
                          IF drawn > 0 THEN "Drew - you can now play"
                          ELSE "You can now play a tile")
                   EXCEPT !.drew_count = drawn, !.can_play = TRUE]]
    ELSE IF by # <<>>
    THEN draw_loop(g, Append(ph, by[Len(by)]), SubSeq(by, 1, Len(by) - 1),
                   drawn + 1)
    ELSE [g |-> [g EXCEPT !.player_hand = ph, !.boneyard = by,
                          !.current_player = "ai"],
          res |-> [Result("player_draw_until_playable", TRUE,
                          IF drawn > 0
                          THEN "Drew but still cannot play - turn passed to AI"
                          ELSE "No playable tiles - turn passed to AI")
                   EXCEPT !.drew_count = drawn, !.passed = TRUE]]

\* Mutant of player_draw_until_playable: a tile is drawn before the hand is
\* looked at.
player_draw_then_look(g) ==
    IF draw_refused(g)
    THEN [g |-> g,
          res |-> Result("player_draw_until_playable", FALSE,
                         "Not your turn or game over")]
    ELSE IF g.boneyard = <<>>
    THEN [g |-> g,
          res |-> Result("player_draw_until_playable", FALSE,
                         "No tiles left to draw")]
    ELSE draw_loop(g, Append(g.player_hand, g.boneyard[Len(g.boneyard)]),
                   SubSeq(g.boneyard, 1, Len(g.boneyard) - 1), 1)

\* DominoesGame.player_draw_until_playable()
player_draw_until_playable(g) ==
    IF draw_refused(g)
    THEN [g |-> g,
          res |-> Result("player_draw_until_playable", FALSE,
                         "Not your turn or game over")]
    ELSE IF g.boneyard = <<>>
    THEN [g |-> g,
          res |-> Result("player_draw_until_playable", FALSE,
                         "No tiles left to draw")]
    ELSE draw_loop(g, g.player_hand, g.boneyard, 0)

-----------------------------------------------------------------------------
(* The read-only methods *)

\* Tile.to_dict
to_dict(t) == [left |-> t[1], right |-> t[2]]

\* Mutant of get_board: the first tile of the board is left out.
get_board_without_first(g) ==
    [i \in 1..(Len(g.board) - 1) |-> to_dict(g.board[i + 1])]

\* DominoesGame.get_board: [tile.to_dict() for tile in self.board]
get_board(g) == [i \in 1..Len(g.board) |-> to_dict(g.board[i])]

\* DominoesGame.can_player_play_any_tile: the hand of the side to move
can_player_play_any_tile(g) ==
    LET hand == IF g.current_player = "player" THEN g.player_hand
                ELSE g.ai_hand
    IN  \E i \in 1..Len(hand) :
            LET playable == can_play_tile(g.board, hand[i])
            IN  playable.left \/ playable.right

\* DominoesGame.get_game_state
get_game_state(g) ==
    LET ends == get_board_ends(g.board)
    IN  [current_player |-> g.current_player,
         game_over |-> g.game_over,
         winner |-> g.winner,
         player_tile_count |-> Len(g.player_hand),
         ai_tile_count |-> Len(g.ai_hand),
         boneyard_count |-> Len(g.boneyard),
         board_ends |-> [left |-> ends[1], right |-> ends[2]],
         player_can_play |-> IF g.current_player = "player"
                             THEN can_player_play_any_tile(g)
                             ELSE TRUE]

\* DominoesGame.get_starting_info, computed from the hands as they are when
\* it is called; opening_tile is the Tile whose to_dict() is returned, NoTile
\* for None
get_starting_info(g) ==
    LET player_highest_double == highest_double(g.player_hand)
        ai_highest_double == highest_double(g.ai_hand)
    IN  IF ai_highest_double # NoTile /\ player_highest_double # NoTile
        THEN IF ai_highest_double[1] > player_highest_double[1]
             THEN [starter |-> "ai", reason |-> "AI has highest double",
                   opening_tile |-> ai_highest_double]
             ELSE [starter |-> "player", reason |-> "Player has highest double",
                   opening_tile |-> NoTile]
        ELSE IF ai_highest_double # NoTile
        THEN [starter |-> "ai", reason |-> "AI has only double",
              opening_tile |-> ai_highest_double]
        ELSE IF player_highest_double # NoTile
        THEN [starter |-> "player", reason |-> "Player has only double",
              opening_tile |-> NoTile]
        ELSE LET player_highest == get_highest_tile(g.player_hand)
                 ai_highest == get_highest_tile(g.ai_hand)
             IN  IF tile_value(ai_highest) > tile_value(player_highest)
                 THEN [starter |-> "ai", reason |-> "AI has highest tile",
                       opening_tile |-> ai_highest]
                 ELSE [starter |-> "player",
                       reason |-> "Player has highest tile",
                       opening_tile |-> NoTile]

-----------------------------------------------------------------------------
(* The state machine *)

\* What callers pass to play_player_tile: pip values up to MaxSpecPip (one
\* beyond the set's) and a side that may be no side at all.
MaxSpecPip == 7

TileDicts == [left : 0..MaxSpecPip, right : 0..MaxSpecPip]

Positions == {"left", "right", "middle"}

\* the sides a tile can be played on
Sides == {"left", "right"}

\* the tile spec {left: a, right: b}
TileDict(a, b) == [left |-> a, right |-> b]

\* the server threads that serve requests for this game at one time (the
\* server starts a thread per request)
MaxThreads == 2

Threads == 1..MaxThreads

\* a thread that serves no request: its position and its locals
IdleRequest ==
    [pc |-> "idle", kind |-> None, tile_dict |-> [left |-> 0, right |-> 0],
     position |-> None, tile |-> NoTile, placing |-> NoTile, where |-> None,
     outcome |-> None]

\* new_game, main.py lines 136-139: the score of a session that has none yet
NewSession == [player_wins |-> 0, ai_wins |-> 0]

\* DominoesGame.__init__ with random.shuffle leaving self.tiles = deck: the
\* state when the constructor returns to new_game
Constructed(deck) ==
    LET dealt == deal_tiles(deck)
    IN  /\ IsShuffleOf(deck, create_domino_set)
        /\ tiles = deck
        /\ player_hand = dealt.player_hand
        /\ ai_hand = dealt.ai_hand
        /\ board = dealt.board
        /\ boneyard = dealt.boneyard
        /\ current_player = dealt.current_player
        /\ game_over = FALSE
        /\ winner = None
        /\ last = Result("__init__", TRUE, None)
        /\ requests = [t \in Threads |-> IdleRequest]
        /\ session = NewSession

Init == \E k \in 1..NumDecks : Constructed(Decks[k])

\* the fields after a call and its return value become the state
Returns(out) ==
    /\ player_hand' = out.g.player_hand
    /\ ai_hand' = out.g.ai_hand
    /\ board' = out.g.board
    /\ boneyard' = out.g.boneyard
    /\ current_player' = out.g.current_player
    /\ game_over' = out.g.game_over
    /\ winner' = out.g.winner
    /\ last' = out.res
    /\ UNCHANGED <<tiles, requests, session>>

PlayPlayerTile(tile_dict, position) ==
    Returns(play_player_tile(Cur, tile_dict, position))

AiPlay == Returns(ai_play(Cur))

PlayerDrawUntilPlayable == Returns(player_draw_until_playable(Cur))

Next ==
    \/ \E tile_dict \in TileDicts, position \in Positions :
           PlayPlayerTile(tile_dict, position)
    \/ AiPlay
    \/ PlayerDrawUntilPlayable

Spec == Init /\ [][Next]_vars

\* Construction over many more shuffles, each game followed for its first
\* call only: the decks of Init and the family ModShuffle(m, k).
MaxMultiplier == 12
MaxRotation == 27

\* a permutation of the tile set: position i holds tile m * ((i + k) mod 28 + 1)
\* mod 29 of the set (29 is prime, so for m not a multiple of 29 every tile
\* occurs once)
ModShuffle(m, k) ==
    LET n == Len(create_domino_set)
    IN  [i \in 1..n |-> create_domino_set[(m * (((i + k) % n) + 1)) % (n + 1)]]

InitDeals ==
    \/ Init
    \/ \E m \in 1..MaxMultiplier, k \in 0..MaxRotation :
           /\ m % (Len(create_domino_set) + 1) # 0
           /\ Constructed(ModShuffle(m, k))

\* the state DominoesGame() returned, before any call
Fresh == last.op = "__init__"

NextFresh == Fresh /\ Next

SpecDeals == InitDeals /\ [][NextFresh]_vars

-----------------------------------------------------------------------------
(* The session layer: the handlers play_tile and draw_tile of app/main.py  *)
(* look the game up in app.games and call the engine on it, with no lock.  *)
(* Two requests for one game id are served by two threads of the server,   *)
(* and the interpreter may switch threads between any two statements: a    *)
(* step of a thread is one statement or test of the handler or of the      *)
(* engine method it is in (ai_play and _check_game_over are taken as one   *)
(* step each).                                                             *)

\* the request is answered: the thread stops with the outcome of the call
Answered(r, outcome) == [r EXCEPT !.pc = "done", !.outcome = outcome]

\* a step of thread t that leaves the engine's fields as g and the thread as r
ThreadStep(t, g, r) ==
    /\ player_hand' = g.player_hand
    /\ ai_hand' = g.ai_hand
    /\ board' = g.board
    /\ boneyard' = g.boneyard
    /\ current_player' = g.current_player
    /\ game_over' = g.game_over
    /\ winner' = g.winner
    /\ requests' = [requests EXCEPT ![t] = r]
    /\ UNCHANGED <<tiles, last, session>>

\* what the page offers to play: the tiles of the hand it shows, on a side
ShownTileDicts == {TileDict(player_hand[i][1], player_hand[i][2]) :
                       i \in 1..Len(player_hand)}

\* POST /api/play-tile arrives: game = app.games[game_id], the call begins
StartPlayTile(t, tile_dict, position) ==
    /\ requests[t].pc = "idle"
    /\ ThreadStep(t, Cur, [IdleRequest EXCEPT !.pc = "play_guard",
                                              !.kind = "play",
                                              !.tile_dict = tile_dict,
                                              !.position = position])

\* POST /api/draw-tile arrives
StartDrawTile(t) ==
    /\ requests[t].pc = "idle"
    /\ ThreadStep(t, Cur, [IdleRequest EXCEPT !.pc = "draw_guard",
                                              !.kind = "draw"])

\* play_player_tile, line 168
PlayGuard(t) ==
    /\ requests[t].pc = "play_guard"
    /\ ThreadStep(t, Cur,
                  IF play_refused(Cur) THEN Answered(requests[t], "rejected")
                  ELSE [requests[t] EXCEPT !.pc = "play_find"])

\* play_player_tile, lines 172-179
PlayFind(t) ==
    /\ requests[t].pc = "play_find"
    /\ LET tile == find_tile(player_hand, requests[t].tile_dict)
       IN  ThreadStep(t, Cur,
                      IF tile = NoTile THEN Answered(requests[t], "rejected")
                      ELSE [requests[t] EXCEPT !.pc = "play_check",
                                               !.tile = tile])

\* play_player_tile, lines 181-183
PlayCheck(t) ==
    /\ requests[t].pc = "play_check"
    /\ ThreadStep(t, Cur,
                  IF requests[t].position \notin {"left", "right"}
                  THEN Answered(requests[t], "KeyError")
                  ELSE IF ~can_play_tile(board, requests[t].tile)[requests[t].position]
                  THEN Answered(requests[t], "rejected")
                  ELSE [requests[t] EXCEPT !.pc = "tile_in_hand"])

\* play_tile, line 135: if tile not in hand: return False
TileInHand(t) ==
    /\ requests[t].pc = "tile_in_hand"
    /\ ThreadStep(t, Cur,
                  IF ~InList(requests[t].tile, player_hand)
                  THEN Answered(requests[t], "failed")
                  ELSE [requests[t] EXCEPT !.pc = "choose_end"])

\* play_tile, the tests of lines 138, 144-148 and 155-157: where the tile
\* goes and how it is turned, from the board as it is read now
ChooseEnd(t) ==
    /\ requests[t].pc = "choose_end"
    /\ LET r == requests[t]
           left_end == get_board_ends(board)[1]
           right_end == get_board_ends(board)[2]
       IN  ThreadStep(t, Cur,
               IF board = <<>>
               THEN [r EXCEPT !.pc = "place", !.where = "append",
                              !.placing = r.tile]
               ELSE IF r.position = "left" /\ has_value(r.tile, left_end)
               THEN [r EXCEPT !.pc = "place", !.where = "insert",
                              !.placing = orient_left(r.tile, left_end)]
               ELSE IF r.position = "right" /\ has_value(r.tile, right_end)
               THEN [r EXCEPT !.pc = "place", !.where = "append",
                              !.placing = orient_right(r.tile, right_end)]
               ELSE Answered(r, "failed"))

\* play_tile, lines 140, 149/151, 158/160: board.append or board.insert(0, ..)
Place(t) ==
    /\ requests[t].pc = "place"
    /\ ThreadStep(t, [Cur EXCEPT !.board =
                          IF requests[t].where = "insert"
                          THEN <<requests[t].placing>> \o board
                          ELSE Append(board, requests[t].placing)],
                  [requests[t] EXCEPT !.pc = "remove"])

\* play_tile, lines 141, 152, 161: hand.remove(tile), ValueError when the tile
\* is no longer in the list
RemoveFromHand(t) ==
    /\ requests[t].pc = "remove"
    /\ ThreadStep(t,
                  IF InList(requests[t].tile, player_hand)
                  THEN [Cur EXCEPT !.player_hand =
                                       ListRemove(player_hand, requests[t].tile)]
                  ELSE Cur,
                  IF InList(requests[t].tile, player_hand)
                  THEN [requests[t] EXCEPT !.pc = "set_turn"]
                  ELSE Answered(requests[t], "ValueError"))

\* play_player_tile, line 186: self.current_player = 'ai'
SetTurn(t) ==
    /\ requests[t].pc = "set_turn"
    /\ ThreadStep(t, [Cur EXCEPT !.current_player = "ai"],
                  [requests[t] EXCEPT !.pc = "check_over"])

\* play_player_tile, lines 187-188: self._check_game_over(); success
CheckOver(t) ==
    /\ requests[t].pc = "check_over"
    /\ LET over == check_game_over(player_hand, ai_hand, board, boneyard,
                                   game_over, winner)
       IN  ThreadStep(t, [Cur EXCEPT !.game_over = over.game_over,
                                     !.winner = over.winner],
                      [requests[t] EXCEPT !.pc = "ai_reply",
                                          !.outcome = "played"])

\* the handlers' game.ai_play() (main.py lines 215, 288) after a successful
\* play or a pass, then the response
AiReply(t) ==
    /\ requests[t].pc = "ai_reply"
    /\ ThreadStep(t, ai_play(Cur).g, [requests[t] EXCEPT !.pc = "done"])

\* player_draw_until_playable, lines 252-256
DrawGuard(t) ==
    /\ requests[t].pc = "draw_guard"
    /\ ThreadStep(t, Cur,
                  IF draw_refused(Cur) \/ boneyard = <<>>
                  THEN Answered(requests[t], "rejected")
                  ELSE [requests[t] EXCEPT !.pc = "draw_look"])

\* player_draw_until_playable, lines 262-281
DrawLook(t) ==
    /\ requests[t].pc = "draw_look"
    /\ ThreadStep(t, Cur,
                  IF can_play_any(board, player_hand)
                  THEN Answered(requests[t], "can_play")
                  ELSE [requests[t] EXCEPT !.pc = "draw_more"])

\* player_draw_until_playable, lines 284-290: pop and append, or pass
DrawMore(t) ==
    /\ requests[t].pc = "draw_more"
    /\ ThreadStep(t,
                  IF boneyard # <<>>
                  THEN [Cur EXCEPT
                            !.player_hand = Append(player_hand,
                                                   boneyard[Len(boneyard)]),
                            !.boneyard = SubSeq(boneyard, 1, Len(boneyard) - 1)]
                  ELSE [Cur EXCEPT !.current_player = "ai"],
                  IF boneyard # <<>>
                  THEN [requests[t] EXCEPT !.pc = "draw_look"]
                  ELSE [requests[t] EXCEPT !.pc = "ai_reply",
                                           !.outcome = "passed"])

NextRequests ==
    \E t \in Threads :
        \/ \E tile_dict \in ShownTileDicts, position \in Sides :
               StartPlayTile(t, tile_dict, position)
        \/ StartDrawTile(t)
        \/ PlayGuard(t)
        \/ PlayFind(t)
        \/ PlayCheck(t)
        \/ TileInHand(t)
        \/ ChooseEnd(t)
        \/ Place(t)
        \/ RemoveFromHand(t)
        \/ SetTurn(t)
        \/ CheckOver(t)
        \/ AiReply(t)
        \/ DrawGuard(t)
        \/ DrawLook(t)
        \/ DrawMore(t)

\* a new game (new_game: app.games[game_id] = DominoesGame()) and the requests
\* that reach it
SpecRequests == Init /\ [][NextRequests]_vars

\* the handler play_tile of main.py run alone, start to end, on the engine g
HandlePlayTile(g, tile_dict, position) ==
    LET played == play_player_tile(g, tile_dict, position)
    IN  IF played.res.success THEN ai_play(played.g).g ELSE played.g

\* the handler draw_tile of main.py run alone, start to end, on the engine g
HandleDrawTile(g) ==
    LET drew == player_draw_until_playable(g)
    IN  IF drew.res.passed THEN ai_play(drew.g).g ELSE drew.g

-----------------------------------------------------------------------------
(* The session score: the requests of one browser for its game, served one *)
(* after the other, each handler from start to end.                        *)

\* play_tile, main.py lines 232-239: if game_state['game_over'] and
\* game_state['winner'], the winner's counter + 1
score_update(sess, g) ==
    IF g.game_over /\ g.winner # None
    THEN IF g.winner = "player"
         THEN [sess EXCEPT !.player_wins = @ + 1]
         ELSE [sess EXCEPT !.ai_wins = @ + 1]
    ELSE sess

\* the handler answers: the engine as it leaves it, the engine's result to
\* the player's call, the session as the response's cookie carries it
Responds(g, res, sess) ==
    /\ player_hand' = g.player_hand
    /\ ai_hand' = g.ai_hand
    /\ board' = g.board
    /\ boneyard' = g.boneyard
    /\ current_player' = g.current_player
    /\ game_over' = g.game_over
    /\ winner' = g.winner
    /\ last' = res
    /\ session' = sess
    /\ UNCHANGED <<tiles, requests>>

\* POST /api/play-tile, main.py lines 187-274
PlayTileRequest(tile_dict, position) ==
    LET played == play_player_tile(Cur, tile_dict, position)
        g == HandlePlayTile(Cur, tile_dict, position)
    IN  Responds(g, played.res,
                 IF played.res.success THEN score_update(session, g)
                 ELSE session)

\* POST /api/draw-tile, main.py lines 277-301
DrawTileRequest ==
    Responds(HandleDrawTile(Cur), player_draw_until_playable(Cur).res, session)

NextSession ==
    \/ \E tile_dict \in TileDicts, position \in Sides :
           PlayTileRequest(tile_dict, position)
    \/ DrawTileRequest

\* self.tiles after a shuffle with which a game ends inside a draw-tile
\* request: the player draws the boneyard out and passes, and the AI's move
\* blocks both ends
SessionDeck ==
    <<<<1,5>>, <<1,4>>, <<3,6>>, <<4,6>>, <<2,4>>, <<5,5>>, <<3,3>>,
      <<6,6>>, <<5,6>>, <<0,4>>, <<0,2>>, <<0,0>>, <<0,6>>, <<0,5>>,
      <<3,4>>, <<0,3>>, <<2,3>>, <<4,5>>, <<1,3>>, <<1,1>>, <<2,5>>,
      <<3,5>>, <<1,6>>, <<0,1>>, <<2,2>>, <<2,6>>, <<1,2>>, <<4,4>>>>

InitSession == Init \/ Constructed(SessionDeck)

\* a new game of a new session and the requests that follow
SpecSession == InitSession /\ [][NextSession]_vars

-----------------------------------------------------------------------------
(* The draw loops, one iteration of `while True` at a time: a call of      *)
(* ai_play or player_draw_until_playable that passed its guards is inside  *)
(* its loop until an iteration returns.  The calls come one after the      *)
(* other, and requests[1] holds the frame of the call that is running.     *)

\* the locals of a call inside its loop: the method, len(self.boneyard) when
\* the loop was entered, the iterations completed, len(drawn_tiles)
LoopFrame(method, size_at_entry, iterations, drawn_tiles) ==
    [pc |-> method, size_at_entry |-> size_at_entry,
     iterations |-> iterations, drawn_tiles |-> drawn_tiles]

Frame == requests[1]

InLoop == Frame.pc \in {"ai_play", "player_draw_until_playable"}

NoCall == Frame.pc = "idle"

\* Mutant of draw_one: the pop is lost, nothing leaves the boneyard.
draw_one_stalls(hand, by) == [hand |-> hand, boneyard |-> by]

\* lines 232-234 and 284-286: drawn_tile = self.boneyard.pop();
\* hand.append(drawn_tile)
draw_one(hand, by) ==
    [hand |-> Append(hand, by[Len(by)]),
     boneyard |-> SubSeq(by, 1, Len(by) - 1)]

\* a return statement inside the loop: the frame is gone
LoopReturns(out) ==
    /\ player_hand' = out.g.player_hand
    /\ ai_hand' = out.g.ai_hand
    /\ board' = out.g.board
    /\ boneyard' = out.g.boneyard
    /\ current_player' = out.g.current_player
    /\ game_over' = out.g.game_over
    /\ winner' = out.g.winner
    /\ last' = out.res
    /\ requests' = [requests EXCEPT ![1] = IdleRequest]
    /\ UNCHANGED <<tiles, session>>

\* the iteration ends at the bottom of the loop body with one tile drawn
LoopDraws(g) ==
    ThreadStep(1, g, LoopFrame(Frame.pc, Frame.size_at_entry,
                               Frame.iterations + 1, Frame.drawn_tiles + 1))

\* ai_play up to `while True`, lines 192-200
CallAiPlay ==
    /\ NoCall
    /\ IF ai_refused(Cur)
       THEN Returns(ai_play(Cur))
       ELSE ThreadStep(1, Cur, LoopFrame("ai_play", Len(boneyard), 0, 0))

\* one iteration of the loop of ai_play, lines 201-248
AiIteration ==
    /\ Frame.pc = "ai_play"
    /\ LET moves == playable_moves(board, ai_hand)
           best_move == moves[FirstMax([i \in 1..Len(moves) |->
                                            tile_value(moves[i][1])])]
           placed == /\ moves # <<>>
                     /\ play_tile(best_move[1], best_move[2], ai_hand, board).ok
           drew == draw_one(ai_hand, boneyard)
       IN  IF ~placed /\ boneyard # <<>>
           THEN LoopDraws([Cur EXCEPT !.ai_hand = drew.hand,
                                      !.boneyard = drew.boneyard])
           ELSE LoopReturns(ai_loop(Cur, ai_hand, boneyard, Frame.drawn_tiles))

\* player_draw_until_playable up to `while True`, lines 250-261
CallPlayerDraw ==
    /\ NoCall
    /\ IF draw_refused(Cur) \/ boneyard = <<>>
       THEN Returns(player_draw_until_playable(Cur))
       ELSE ThreadStep(1, Cur, LoopFrame("player_draw_until_playable",
                                         Len(boneyard), 0, 0))

\* one iteration of the loop of player_draw_until_playable, lines 262-301
DrawIteration ==
    /\ Frame.pc = "player_draw_until_playable"
    /\ LET drew == draw_one(player_hand, boneyard)
       IN  IF ~can_play_any(board, player_hand) /\ boneyard # <<>>
           THEN LoopDraws([Cur EXCEPT !.player_hand = drew.hand,
                                      !.boneyard = drew.boneyard])
           ELSE LoopReturns(draw_loop(Cur, player_hand, boneyard,
                                      Frame.drawn_tiles))

\* play_player_tile between two calls that loop
PlayBetweenCalls(tile_dict, position) ==
    /\ NoCall
    /\ PlayPlayerTile(tile_dict, position)

NextLoops ==
    \/ \E tile_dict \in ShownTileDicts, position \in Sides :
           PlayBetweenCalls(tile_dict, position)
    \/ CallAiPlay
    \/ AiIteration
    \/ CallPlayerDraw
    \/ DrawIteration

\* an iteration of the call that is inside its loop
IterationStep == AiIteration \/ DrawIteration

\* The thread that runs a call goes on to its next statement: weak fairness
\* of IterationStep, with ENABLED <<IterationStep>>_vars written out as
\* InLoop (an iteration either draws a tile or returns, so it changes the
\* state whenever a call is inside its loop).
SpecLoops ==
    /\ Init
    /\ [][NextLoops]_vars
    /\ ([]<>(~InLoop) \/ []<><<IterationStep>>_vars)

-----------------------------------------------------------------------------
(* Properties *)

\* the four collections, one after the other
AllTiles == player_hand \o ai_hand \o boneyard \o board

\* C1: in every reachable state the two hands, the boneyard and the board
\* hold 28 tiles together.
C1_TileConservation ==
    Len(player_hand) + Len(ai_hand) + Len(boneyard) + Len(board) = 28

\* C1 witness: the AI drew before it played, and both sides have played.
C1_Witness ==
    /\ last.op = "ai_play" /\ last.success /\ last.drew_count > 0
    /\ Len(board) >= 4 /\ Len(player_hand) < HandSize

\* C2: no unordered value-pair occurs twice, neither within one of the four
\* collections nor in two of them; a tile flipped on the board is the same tile.
C2_NoDuplicateTile ==
    \A i, j \in 1..Len(AllTiles) :
        i # j => ~TileEq(AllTiles[i], AllTiles[j])

\* C2 witness: a tile lies flipped on the board after a player's move.
C2_Witness ==
    /\ last.op = "play_player_tile" /\ last.success
    /\ \E i \in 1..Len(board) : board[i][1] > board[i][2]

\* C3: the board is a chain (adjacent tiles meet on equal pips) and
\* get_board_ends is (board[0].left, board[-1].right), (None, None) when empty.
C3_BoardIsChain ==
    /\ \A i \in 1..(Len(board) - 1) : board[i][2] = board[i + 1][1]
    /\ IF Len(board) = 0
       THEN get_board_ends(board) = <<None, None>>
       ELSE get_board_ends(board) = <<Head(board)[1], board[Len(board)][2]>>

\* C3 witness: a board grown at both ends, with a flipped tile at each.
C3_Witness ==
    /\ Len(board) >= 5
    /\ Head(board)[1] < Head(board)[2]
    /\ board[Len(board)][1] > board[Len(board)][2]
    /\ \E i \in 1..3 : board[i][1] > board[i][2]

\* neither hand can move and nothing is left to draw
Blocked ==
    /\ boneyard = <<>>
    /\ player_hand # <<>> /\ ai_hand # <<>>
    /\ ~can_play_any(board, player_hand)
    /\ ~can_play_any(board, ai_hand)

\* C4: a blocked position (boneyard empty, both hands non-empty, no tile of
\* either hand playable) is a finished game: game_over is set and a winner named.
C4_BlockedIsGameOver ==
    Blocked => (game_over /\ winner # None)

\* a call that returned a rejection: success=false from the player's calls,
\* the refusal of ai_play
Rejected(r) ==
    \/ /\ r.op \in {"play_player_tile", "player_draw_until_playable"}
       /\ ~r.success /\ r.raised = None
    \/ r.op = "ai_play" /\ r.message = "Not AI turn or game over"

\* C5: once game_over is true it stays true, the winner never changes, and
\* every later call is rejected and leaves both hands, the board, the boneyard
\* and current_player as they were.
C5_GameOverAbsorbing ==
    [][game_over =>
          /\ game_over' /\ winner' = winner
          /\ UNCHANGED <<player_hand, ai_hand, board, boneyard, current_player>>
          /\ Rejected(last')]_vars

\* C5 witness: after the game ended, each of the three calls has been refused;
\* here the draw, in a game the player won with the turn already handed over.
C5_Witness ==
    /\ game_over /\ winner = "player" /\ current_player = "ai"
    /\ last.op = "player_draw_until_playable" /\ ~last.success

\* play_tile returned False for this tile, side and hand
PlayTileFailsCleanly(tile, position, hand) ==
    LET pt == play_tile(tile, position, hand, board)
    IN  ~pt.ok => (pt.board = board /\ pt.hand = hand)

\* C6: a rejected operation changes nothing: after play_player_tile or
\* player_draw_until_playable returned success=false, or ai_play was refused,
\* the hands, board, boneyard, current_player, game_over and winner are as
\* before the call; and whenever play_tile returns False, board and hand are
\* as they were.
C6_RejectionIsMutationFree ==
    /\ [](\A a, b \in Pips, position \in Positions :
             /\ PlayTileFailsCleanly(<<a, b>>, position, player_hand)
             /\ PlayTileFailsCleanly(<<a, b>>, position, ai_hand))
    /\ [][Rejected(last') => UNCHANGED engine]_vars

\* C6 witness: the player asked for a side its tile does not fit, mid-game.
C6_Witness ==
    /\ last.op = "play_player_tile"
    /\ last.message = "Cannot play tile on side"
    /\ Len(board) >= 2 /\ current_player = "player"

\* the call is one the claim C7 calls malformed
Malformed(tile_dict, position) ==
    \/ /\ position \notin {"left", "right"}
       /\ InList(<<tile_dict.left, tile_dict.right>>, player_hand)
    \/ tile_dict.left \notin Pips
    \/ tile_dict.right \notin Pips

\* C7: on the player's turn of a running game, play_player_tile with a side
\* that is neither 'left' nor 'right' (tile in hand), or with a pip outside
\* 0..6, returns success=false, raises nothing and changes nothing.
C7_MalformedInputRejected ==
    [][\A tile_dict \in TileDicts, position \in Positions :
           (/\ current_player = "player" /\ ~game_over
            /\ Malformed(tile_dict, position)
            /\ PlayPlayerTile(tile_dict, position))
           => (/\ ~last'.success /\ last'.raised = None
               /\ UNCHANGED engine)]_vars

\* C8: play_player_tile finds a held tile in either orientation: for a held
\* tile {a, b} the calls with {left: a, right: b} and {left: b, right: a} have
\* the same outcome (a step is one call's exactly when it is the other's), and
\* 'Tile not in your hand' is returned only when no tile {a, b} is held.
C8_SymmetricLookup ==
    [][/\ \A i \in 1..Len(player_hand), position \in {"left", "right"} :
              PlayPlayerTile(TileDict(player_hand[i][1], player_hand[i][2]),
                             position)
                  <=> PlayPlayerTile(TileDict(player_hand[i][2],
                                              player_hand[i][1]), position)
       /\ \A tile_dict \in TileDicts, position \in {"left", "right"} :
              (/\ PlayPlayerTile(tile_dict, position)
               /\ last'.message = "Tile not in your hand")
              => ~InList(<<tile_dict.left, tile_dict.right>>, player_hand)]_vars

\* the hands as dealt: tiles[:7] and tiles[7:14]
DealtPlayer == SubSeq(tiles, 1, 7)
DealtAi == SubSeq(tiles, 8, 14)

\* the pip values of the doubles in a hand, the pip sums of its tiles
DoublePips(hand) == {hand[i][1] : i \in {j \in 1..Len(hand) : hand[j][1] = hand[j][2]}}
PipSums(hand) == {hand[i][1] + hand[i][2] : i \in 1..Len(hand)}
Greatest(S) == CHOOSE x \in S : \A y \in S : y <= x

\* the starting rule of C9: when the AI opens
AiOpens ==
    LET pd == DoublePips(DealtPlayer)
        ad == DoublePips(DealtAi)
    IN  \/ pd # {} /\ ad # {} /\ Greatest(ad) > Greatest(pd)
        \/ pd = {} /\ ad # {}
        \/ /\ pd = {} /\ ad = {}
           /\ Greatest(PipSums(DealtAi)) > Greatest(PipSums(DealtPlayer))

\* hand is dealt without exactly the tile at index i
Without(dealt, i, hand) ==
    hand = SubSeq(dealt, 1, i - 1) \o SubSeq(dealt, i + 1, Len(dealt))

\* C9: at construction the AI opens iff both hands hold a double and the AI's
\* highest is strictly higher, or only the AI holds a double, or no double is
\* held and the AI's highest pip sum is strictly higher; then the board is
\* exactly that highest double (or a tile of that highest sum) and the tile
\* has left ai_hand; otherwise the board is empty and nothing was played.
C9_StartingPlayerRule ==
    Fresh =>
        /\ player_hand = DealtPlayer
        /\ IF AiOpens
           THEN /\ Len(board) = 1
                /\ \E i \in 1..Len(DealtAi) :
                       /\ board[1] = DealtAi[i]
                       /\ Without(DealtAi, i, ai_hand)
                /\ IF DoublePips(DealtAi) # {}
                   THEN board[1] = <<Greatest(DoublePips(DealtAi)),
                                     Greatest(DoublePips(DealtAi))>>
                   ELSE board[1][1] + board[1][2] = Greatest(PipSums(DealtAi))
           ELSE board = <<>> /\ ai_hand = DealtAi

\* C9 witness: no double was dealt to either hand and the AI opened with its
\* highest-sum tile.
C9_Witness ==
    /\ Fresh /\ Len(board) = 1 /\ board[1][1] # board[1][2]
    /\ DoublePips(DealtPlayer) = {} /\ DoublePips(DealtAi) = {}

\* C10: right after construction player_hand has 7 tiles, the boneyard 14,
\* the board 0 or 1, ai_hand 7 - len(board); current_player is 'player' (also
\* when the AI opened), game_over is false and winner is None.
C10_PostConstruction ==
    Fresh =>
        /\ Len(player_hand) = 7
        /\ Len(boneyard) = 14
        /\ Len(board) \in {0, 1}
        /\ Len(ai_hand) = 7 - Len(board)
        /\ current_player = "player"
        /\ ~game_over
        /\ winner = None

\* C10 witness: a fresh game in which the AI has opened.
C10_Witness ==
    Fresh /\ Len(board) = 1 /\ Len(ai_hand) = 6

\* C11: when play_player_tile returns success=true, the call was made on the
\* player's turn of a running game, exactly the named tile has left
\* player_hand, the board is one longer with that tile at the requested end,
\* ai_hand and boneyard are unchanged and current_player is 'ai'.
C11_AcceptedPlayerMove ==
    [][(last'.op = "play_player_tile" /\ last'.success) =>
       \A tile_dict \in TileDicts, position \in Positions :
           PlayPlayerTile(tile_dict, position)
           => /\ current_player = "player" /\ ~game_over
              /\ Len(board') = Len(board) + 1
              /\ \E i \in 1..Len(player_hand) :
                     /\ TileEq(player_hand[i],
                               <<tile_dict.left, tile_dict.right>>)
                     /\ Without(player_hand, i, player_hand')
                     /\ \/ /\ position = "left"
                           /\ TileEq(Head(board'), player_hand[i])
                           /\ Tail(board') = board
                        \/ /\ position = "right"
                           /\ TileEq(board'[Len(board')], player_hand[i])
                           /\ SubSeq(board', 1, Len(board)) = board
              /\ UNCHANGED <<ai_hand, boneyard>>
              /\ current_player' = "ai"]_vars

\* C11 witness: the player's move was accepted in mid-game and the game goes on.
C11_Witness ==
    /\ last.op = "play_player_tile" /\ last.success
    /\ Len(board) >= 3 /\ Len(player_hand) <= 5
    /\ current_player = "ai" /\ ~game_over

\* C12: can_play_tile reports both sides legal for every tile on an empty
\* board; on a non-empty board 'left' is true iff one of the tile's pips equals
\* the left end (board[0].left) and 'right' iff one equals the right end
\* (board[-1].right).
C12_CanPlayLegality ==
    \A a, b \in 0..MaxSpecPip :
        LET playable == can_play_tile(board, <<a, b>>)
        IN  IF Len(board) = 0
            THEN playable.left /\ playable.right
            ELSE /\ playable.left
                        <=> (a = board[1][1] \/ b = board[1][1])
                 /\ playable.right
                        <=> (a = board[Len(board)][2] \/ b = board[Len(board)][2])

\* C12 witness: the ends of the board differ, the player holds a tile that
\* fits both ends and one that fits neither, and a side was just refused.
C12_Witness ==
    /\ Len(board) >= 2
    /\ board[1][1] # board[Len(board)][2]
    /\ last.op = "play_player_tile"
    /\ last.message = "Cannot play tile on side"
    /\ \E i, j \in 1..Len(player_hand) :
           /\ can_play_tile(board, player_hand[i]).left
           /\ can_play_tile(board, player_hand[i]).right
           /\ ~can_play_tile(board, player_hand[j]).left
           /\ ~can_play_tile(board, player_hand[j]).right

\* C13: whenever ai_play returns played=true, the tile it placed was in the
\* AI's hand and playable on the reported side of the board as it stood when
\* the AI chose (draws do not change the board), and no tile of that hand
\* that was playable on some end has a greater pip sum.
C13_AiPicksHighestPlayable ==
    [][(last'.op = "ai_play" /\ last'.success) =>
       LET tile == last'.tile
           position == last'.position
       IN  /\ position \in {"left", "right"}
           /\ InList(tile, ai_hand \o boneyard)
           /\ ~InList(tile, ai_hand')
           /\ can_play_tile(board, tile)[position]
           /\ \A i \in 1..Len(ai_hand') :
                  (\/ can_play_tile(board, ai_hand'[i]).left
                   \/ can_play_tile(board, ai_hand'[i]).right)
                  => ai_hand'[i][1] + ai_hand'[i][2] <= tile[1] + tile[2]]_vars

\* C13 witness: the AI laid a tile on the left end while it held another,
\* lighter tile that fitted the board as it was before the move.
C13_Witness ==
    /\ last.op = "ai_play" /\ last.success /\ last.position = "left"
    /\ Len(board) >= 3
    /\ TileEq(Head(board), last.tile)
    /\ \E i \in 1..Len(ai_hand) :
           /\ \/ can_play_tile(Tail(board), ai_hand[i]).left
              \/ can_play_tile(Tail(board), ai_hand[i]).right
           /\ ai_hand[i][1] + ai_hand[i][2] < last.tile[1] + last.tile[2]

\* ai_play is called on the AI's turn of a running game
AiAccepted == current_player = "ai" /\ ~game_over

\* neither the AI's hand nor anything it could still draw fits the board
NoAiMove == ~can_play_any(board, ai_hand \o boneyard)

\* the list read from its last element to its first: the order of pop()
RECURSIVE Reversed(_)
Reversed(lst) ==
    IF lst = <<>> THEN <<>> ELSE <<lst[Len(lst)]>> \o Reversed(SubSeq(lst, 1, Len(lst) - 1))

\* C14: an accepted ai_play during which the AI has no playable tile and the
\* boneyard is (or has been drawn) empty returns played=false with drew_count
\* the number of tiles drawn in the call, leaves the board as it was and sets
\* current_player to 'player'; and an accepted ai_play returns played=false
\* only then.
C14_AiForcedPass ==
    [][last'.op = "ai_play" =>
       /\ (AiAccepted /\ NoAiMove)
          => /\ ~last'.success
             /\ last'.drew_count = Len(boneyard)
             /\ ai_hand' = ai_hand \o Reversed(boneyard)
             /\ boneyard' = <<>>
             /\ board' = board
             /\ current_player' = "player"
       /\ (AiAccepted /\ ~last'.success) => NoAiMove]_vars

\* C14 witness: the AI drew the boneyard out, still could not play and passed.
C14_Witness ==
    /\ last.op = "ai_play" /\ ~last.success /\ last.drew_count > 0
    /\ last.message = "AI drew but still cannot play - passed"
    /\ boneyard = <<>> /\ current_player = "player"

\* player_draw_until_playable is called on the player's turn of a running
\* game with something left to draw
DrawAccepted == current_player = "player" /\ ~game_over /\ boneyard # <<>>

\* the player's hand after n draws
HandAfterDraws(n) == player_hand \o SubSeq(Reversed(boneyard), 1, n)

\* the number of draws after which the player's hand first holds a tile that
\* fits the board (defined when some tile of hand or boneyard fits)
DrawsNeeded ==
    CHOOSE n \in 0..Len(boneyard) :
        /\ can_play_any(board, HandAfterDraws(n))
        /\ \A m \in 0..(n - 1) : ~can_play_any(board, HandAfterDraws(m))

\* C15: an accepted player_draw_until_playable stops at the first hand that
\* holds a playable tile: it returns can_play=true with drew_count the draws
\* made so far, draws nothing further and leaves current_player 'player';
\* with a playable tile at entry drew_count is 0 and no collection changes.
C15_DrawStopsWhenPlayable ==
    [][(/\ last'.op = "player_draw_until_playable"
        /\ DrawAccepted
        /\ can_play_any(board, player_hand \o boneyard))
       => /\ last'.success /\ last'.can_play /\ ~last'.passed
          /\ last'.drew_count = DrawsNeeded
          /\ player_hand' = HandAfterDraws(DrawsNeeded)
          /\ boneyard' = SubSeq(boneyard, 1, Len(boneyard) - DrawsNeeded)
          /\ current_player' = "player"
          /\ UNCHANGED <<ai_hand, board, game_over, winner>>
          /\ can_play_any(board, player_hand)
             => (last'.drew_count = 0
                 /\ UNCHANGED <<player_hand, ai_hand, board, boneyard>>)]_vars

\* C15 witness: the player drew several tiles, the last of them fits, and
\* tiles are left in the boneyard.
C15_Witness ==
    /\ last.op = "player_draw_until_playable" /\ last.can_play
    /\ last.drew_count >= 2 /\ boneyard # <<>>
    /\ current_player = "player"
    /\ ~can_play_any(board, SubSeq(player_hand, 1, Len(player_hand) - 1))

\* C16: on the player's turn of a running game, with no playable tile in the
\* hand and none among the k >= 1 tiles of the boneyard,
\* player_draw_until_playable draws exactly those k tiles, leaves the boneyard
\* empty, reports passed=true, can_play=false, drew_count=k and sets
\* current_player to 'ai'.
C16_PlayerForcedPass ==
    [][(/\ last'.op = "player_draw_until_playable"
        /\ current_player = "player" /\ ~game_over
        /\ Len(boneyard) >= 1
        /\ ~can_play_any(board, player_hand \o boneyard))
       => /\ last'.passed /\ ~last'.can_play
          /\ last'.drew_count = Len(boneyard)
          /\ Len(player_hand') = Len(player_hand) + Len(boneyard)
          /\ player_hand' = player_hand \o Reversed(boneyard)
          /\ boneyard' = <<>>
          /\ current_player' = "ai"
          /\ UNCHANGED <<ai_hand, board>>]_vars

\* C16 witness: the player drew the last tiles of the boneyard, at least two,
\* none fitted, and the turn went to the AI.
C16_Witness ==
    /\ last.op = "player_draw_until_playable" /\ last.passed
    /\ last.drew_count >= 2 /\ boneyard = <<>>
    /\ current_player = "ai" /\ ~can_play_any(board, player_hand)

\* C17: right after a successful play that leaves the mover's hand empty,
\* game_over is true and the winner is the mover: 'player' after
\* play_player_tile emptied player_hand, 'ai' after ai_play emptied ai_hand,
\* also when the boneyard is empty and the other side cannot move.
C17_WinByGoingOut ==
    /\ (last.op = "play_player_tile" /\ last.success /\ player_hand = <<>>)
       => (game_over /\ winner = "player")
    /\ (last.op = "ai_play" /\ last.success /\ ai_hand = <<>>)
       => (game_over /\ winner = "ai")

\* C17 witness: the AI laid its last tile with the boneyard empty and no tile
\* of the player's hand fitting the board.
C17_Witness ==
    /\ last.op = "ai_play" /\ last.success /\ ai_hand = <<>>
    /\ boneyard = <<>> /\ player_hand # <<>>
    /\ ~can_play_any(board, player_hand)

\* the sum of left + right over the tiles at the indices I of a hand
RECURSIVE PipTotalOver(_, _)
PipTotalOver(hand, I) ==
    IF I = {} THEN 0
    ELSE LET i == CHOOSE j \in I : TRUE
         IN  hand[i][1] + hand[i][2] + PipTotalOver(hand, I \ {i})

PipTotal(hand) == PipTotalOver(hand, 1..Len(hand))

\* the last call was a play that was carried out
SuccessfulPlay == last.op \in {"play_player_tile", "ai_play"} /\ last.success

\* C18: when a successful play leaves the boneyard empty, both hands
\* non-empty and neither with a legal move, the game is over and the winner is
\* 'player' iff the pip sum of player_hand is strictly lower than that of
\* ai_hand, 'ai' otherwise (equal sums included).
C18_BlockedScoring ==
    (SuccessfulPlay /\ Blocked)
    => /\ game_over
       /\ winner = IF PipTotal(player_hand) < PipTotal(ai_hand)
                   THEN "player" ELSE "ai"

\* C18 witness: a play blocked the game with equal pip sums in the two hands.
C18_Witness ==
    /\ SuccessfulPlay /\ Blocked
    /\ PipTotal(player_hand) = PipTotal(ai_hand)

\* the four causes of C20 for which play_player_tile rejects a call
Causes == {"not in hand", "illegal side", "wrong turn", "game over"}

\* why the engine in state g has to reject the call, when exactly one of the
\* four causes applies to it
RejectionCause(g, tile_dict, position) ==
    IF g.game_over
    THEN IF g.current_player = "player" THEN "game over" ELSE "several"
    ELSE IF g.current_player # "player" THEN "wrong turn"
    ELSE IF ~InList(<<tile_dict.left, tile_dict.right>>, g.player_hand)
    THEN "not in hand"
    ELSE IF /\ find_tile(g.player_hand, tile_dict) # NoTile
            /\ ~can_play_tile(g.board, <<tile_dict.left, tile_dict.right>>)[position]
    THEN "illegal side"
    ELSE "none"

\* the (cause, reason) pairs of the calls play_player_tile rejects in state
\* g; when the turn or the end of the game is the cause, one call stands for all
RejectionsIn(g) ==
    LET calls == IF g.game_over \/ g.current_player # "player"
                 THEN {<<TileDict(0, 0), "left">>}
                 ELSE TileDicts \X Sides
    IN  {<<RejectionCause(g, c[1], c[2]),
           play_player_tile(g, c[1], c[2]).res.message>> : c \in calls}

\* C20: the reasons play_player_tile gives for the four causes of rejection
\* (tile not in hand, side illegal for the tile, not the player's turn, game
\* already over) differ pairwise: around every call that changes the turn or
\* ends the game, no reason given for one cause before the call is given for
\* another cause before or after it.
C20_DistinctReasons ==
    [][(game_over' # game_over \/ current_player' # current_player)
       => LET before == RejectionsIn(Cur)
              after == RejectionsIn(Cur')
          IN  \A r1 \in before, r2 \in before \cup after :
                  (r1[1] \in Causes /\ r2[1] \in Causes /\ r1[1] # r2[1])
                  => r1[2] # r2[2]]_vars

\* the engine as DominoesGame() left it for the deck of this game
NewGame ==
    LET dealt == deal_tiles(tiles)
    IN  [player_hand |-> dealt.player_hand, ai_hand |-> dealt.ai_hand,
         board |-> dealt.board, boneyard |-> dealt.boneyard,
         current_player |-> dealt.current_player,
         game_over |-> FALSE, winner |-> None]

\* the engine after the request r was served alone on the engine g
Served(g, r) ==
    IF r.kind = "play" THEN HandlePlayTile(g, r.tile_dict, r.position)
    ELSE HandleDrawTile(g)

\* both requests have been answered
AllAnswered == \A t \in Threads : requests[t].pc = "done"

\* C19: two requests for the same game are served one after the other: once
\* both are answered the engine is in the state that serving them alone, in
\* one order or the other, leaves it in, and the hands, the boneyard and the
\* board still hold the 28 tiles.
C19_RequestsSerialized ==
    AllAnswered
    => /\ \/ Cur = Served(Served(NewGame, requests[1]), requests[2])
          \/ Cur = Served(Served(NewGame, requests[2]), requests[1])
       /\ Len(player_hand) + Len(ai_hand) + Len(boneyard) + Len(board) = 28

\* the hand of the side whose turn it is
MoverHand == IF current_player = "player" THEN player_hand ELSE ai_hand

\* C21: in every reachable state get_game_state().player_can_play is true iff
\* the hand of the side to move holds a tile playable on the left or the
\* right end of the board.
C21_PlayerCanPlayIsMoversOptions ==
    get_game_state(Cur).player_can_play
        <=> \E i \in 1..Len(MoverHand) :
                \/ can_play_tile(board, MoverHand[i]).left
                \/ can_play_tile(board, MoverHand[i]).right

\* C22: for all a, b, c, d in 0..6, Tile(a,b) == Tile(c,d) iff {a,b} and
\* {c,d} are the same unordered pair, so Tile(a,b) == Tile(b,a) always; a Tile
\* never equals a value that is not a Tile; and the tiles a game holds are
\* pairwise unequal in this sense.
C22_TileEqualityUnordered ==
    /\ \A a, b, c, d \in Pips :
           Tile__eq__(<<a, b>>, PyValue("Tile", c, d)) <=> {a, b} = {c, d}
    /\ \A a, b \in Pips :
           /\ Tile__eq__(<<a, b>>, PyValue("Tile", b, a))
           /\ \A class \in NonTileClasses :
                  ~Tile__eq__(<<a, b>>, PyValue(class, a, b))
    /\ \A i, j \in 1..Len(AllTiles) :
           Tile__eq__(AllTiles[i], PyValue("Tile", AllTiles[j][1], AllTiles[j][2]))
               <=> i = j

\* C22 witness: the first call of a game laid one of the player's tiles
\* turned over, and `tile in hand` no longer finds it in the hand.
C22_Witness ==
    /\ last.op = "play_player_tile" /\ last.success
    /\ \E i \in 1..Len(board), j \in 1..HandSize :
           /\ board[i][1] > board[i][2]
           /\ board[i] # tiles[j] /\ TileEq(board[i], tiles[j])
           /\ ~InList(tiles[j], player_hand)

OtherPip(tile, v) == IF tile[1] = v THEN tile[2] ELSE tile[1]

\* what C24 says of play_tile(tile, position, hand) on the present board
PlacedAsClaimed(tile, position, hand) ==
    LET pt == play_tile(tile, position, hand, board)
        n == Len(board)
        old_left == board[1][1]
        old_right == board[n][2]
    IN  IF n = 0
        THEN pt.ok /\ pt.board = <<tile>>
        ELSE pt.ok =>
             /\ Len(pt.board) = n + 1
             /\ position \in {"left", "right"}
             /\ position = "left" =>
                    /\ Tail(pt.board) = board
                    /\ TileEq(Head(pt.board), tile)
                    /\ Head(pt.board)[2] = old_left
                    /\ get_board_ends(pt.board)
                           = <<OtherPip(tile, old_left), old_right>>
             /\ position = "right" =>
                    /\ SubSeq(pt.board, 1, n) = board
                    /\ TileEq(pt.board[n + 1], tile)
                    /\ pt.board[n + 1][1] = old_right
                    /\ get_board_ends(pt.board)
                           = <<old_left, OtherPip(tile, old_right)>>

\* C24: on a non-empty board a successful play_tile on 'left' prepends the
\* tile turned so that its right pip equals the old left end, the new left
\* end is its other pip and the right end is unchanged; on 'right' it appends
\* the tile turned so that its left pip equals the old right end, the new
\* right end is its other pip and the left end is unchanged; the tiles on the
\* board keep their order and orientation.  On an empty board the tile is
\* appended as given for any side argument.
C24_PlacementOrientation ==
    \A position \in Positions :
        /\ \A i \in 1..Len(player_hand) :
               PlacedAsClaimed(player_hand[i], position, player_hand)
        /\ \A i \in 1..Len(ai_hand) :
               PlacedAsClaimed(ai_hand[i], position, ai_hand)

\* C24 witness: the AI laid a tile on the right end turned over.
C24_Witness ==
    /\ last.op = "ai_play" /\ last.success /\ last.position = "right"
    /\ Len(board) >= 3
    /\ last.tile[1] # last.tile[2]
    /\ board[Len(board)] = <<last.tile[2], last.tile[1]>>

\* the AI's hand after n draws
AiHandAfterDraws(n) == ai_hand \o SubSeq(Reversed(boneyard), 1, n)

\* C25: within one accepted ai_play call a tile is taken from the boneyard
\* only when no tile of the AI's hand fits either end, each draw moves exactly
\* one tile from the boneyard to ai_hand, and drew_count of the result, played
\* or passed, is the number of tiles by which the boneyard shrank (0 when the
\* AI could play at once).
C25_AiDrawAccounting ==
    [][(last'.op = "ai_play" /\ AiAccepted)
       => LET d == Len(boneyard) - Len(boneyard')
              held == AiHandAfterDraws(d)
          IN  /\ d >= 0
              /\ last'.drew_count = d
              /\ boneyard' = SubSeq(boneyard, 1, Len(boneyard) - d)
              /\ \A k \in 0..(d - 1) : ~can_play_any(board, AiHandAfterDraws(k))
              /\ can_play_any(board, ai_hand) => d = 0
              /\ IF last'.success
                 THEN \E i \in 1..Len(held) : /\ held[i] = last'.tile
                                              /\ Without(held, i, ai_hand')
                 ELSE ai_hand' = held]_vars

\* C25 witness: the AI drew three tiles or more, played, and left tiles in
\* the boneyard.
C25_Witness ==
    /\ last.op = "ai_play" /\ last.success /\ last.drew_count >= 3
    /\ boneyard # <<>>
    /\ Len(board) >= 2

\* C26: every call of ai_play and of player_draw_until_playable terminates,
\* after at most n+1 loop iterations where n is the boneyard size at entry:
\* an iteration begins only when at most n were completed, each iteration
\* either returns or takes exactly one tile off the boneyard, and a call
\* inside its loop eventually returns.
C26_DrawLoopsTerminate ==
    /\ [](InLoop => /\ Frame.iterations + 1 <= Frame.size_at_entry + 1
                    /\ Len(boneyard) = Frame.size_at_entry - Frame.iterations)
    /\ [][InLoop => \/ ~InLoop'
                    \/ /\ Len(boneyard') = Len(boneyard) - 1
                       /\ Frame'.iterations = Frame.iterations + 1]_vars
    /\ (InLoop ~> ~InLoop)

\* C26 witness: the player's call enters iteration n+1 with the boneyard of
\* n >= 2 tiles drawn out.
C26_Witness ==
    /\ Frame.pc = "player_draw_until_playable"
    /\ Frame.size_at_entry >= 2
    /\ Frame.iterations = Frame.size_at_entry
    /\ boneyard = <<>>

\* the side to move has an accepted operation that changes the state
MoverCanAct ==
    IF current_player = "ai"
    THEN ai_play(Cur).g # Cur
    ELSE \/ \E i \in 1..Len(player_hand), position \in Sides :
                play_player_tile(Cur, to_dict(player_hand[i]),
                                 position).res.success
         \/ LET drew == player_draw_until_playable(Cur)
            IN  drew.res.success /\ drew.g # Cur

\* C27: in every reachable state with game_over false the side to move has
\* an accepted operation that changes the state: ai_play for the AI, a legal
\* play_player_tile or an accepted player_draw_until_playable (draw or pass)
\* for the player; with no legal tile and an empty boneyard the player can
\* still pass the turn, or the game is over.
C27_NoStuckTurn == ~game_over => MoverCanAct

\* C28: in every reachable state winner is null iff game_over is false, and a
\* finished game has winner 'player' with player_hand empty, or winner 'ai'
\* with ai_hand empty, or an empty boneyard and no legal move in either hand.
C28_WinnerConsistent ==
    /\ winner \in {None, "player", "ai"}
    /\ (winner = None) <=> ~game_over
    /\ game_over => \/ winner = "player" /\ player_hand = <<>>
                    \/ winner = "ai" /\ ai_hand = <<>>
                    \/ /\ boneyard = <<>>
                       /\ ~can_play_any(board, player_hand)
                       /\ ~can_play_any(board, ai_hand)

\* C28 witness: a blocked game that the player won with tiles left in both
\* hands.
C28_Witness ==
    /\ game_over /\ winner = "player"
    /\ player_hand # <<>> /\ ai_hand # <<>> /\ boneyard = <<>>
    /\ ~can_play_any(board, player_hand \o ai_hand)

\* C29: for every game that reaches game_over with a winner, that winner's
\* session counter is incremented exactly once, whichever request finished
\* the game (a play-tile request, or a draw-tile request in which the player
\* passed and the AI's move ended the game), and further requests on the
\* finished game never increment it again: in the first game of a session
\* the score is 0:0 while the game runs and 1:0 or 0:1 for the winner from
\* the moment it is over.
C29_ScoreTracksFinishedGames ==
    /\ ~game_over => session = NewSession
    /\ (game_over /\ winner = "player")
       => session = [player_wins |-> 1, ai_wins |-> 0]
    /\ (game_over /\ winner = "ai")
       => session = [player_wins |-> 0, ai_wins |-> 1]

\* C30: called on a freshly constructed game, get_starting_info returns
\* starter 'ai' iff the AI made the opening play (the board is non-empty),
\* and then its opening_tile is the tile on the board; it returns starter
\* 'player' with opening_tile null iff the board is empty.
C30_StartingInfoAgrees ==
    Fresh => LET info == get_starting_info(Cur)
             IN  /\ (info.starter = "ai") <=> (board # <<>>)
                 /\ board # <<>> => info.opening_tile = board[1]
                 /\ (info.starter = "player" /\ info.opening_tile = NoTile)
                    <=> (board = <<>>)

====
